---- MODULE Spec2Model ----
(***************************************************************************)
(* A model of dotty's file virtualisation engine: src/utils/fs.rs          *)
(* (move_then_symlink, restore, the overwrite temp dir), the path helpers  *)
(* of src/utils/path.rs, the add / restore commands of src/cmds.rs and     *)
(* those of src/main.rs with the manifest of src/config.rs, over an        *)
(* explicit model of a POSIX directory tree with symbolic links.           *)
(***************************************************************************)
EXTENDS Integers, Sequences, FiniteSets, TLC

VARIABLES fs, last, prev, ncalls, run, moved, nruns, query, config

vars == <<fs, last, prev, ncalls, run, moved, nruns, query, config>>

(***************************************************************************)
(* Bounds of the model.                                                    *)
(***************************************************************************)
\* symbolic links followed while resolving one path before ELOOP
MaxHops == 3
\* calls of move_then_symlink / restore made in one behaviour of Spec
MaxCalls == 2
\* nesting of directories copy_recursively descends through
MaxDepth == 3
\* runs of the add / restore commands made in one behaviour of SpecCmds
MaxRuns == 2
\* paths flatten_paths_to_add pops off its stack in one call
MaxVisits == 8
\* components of a path given to a function of path.rs in SpecPath
MaxComps == 2

\* the longest list of paths common_base_path is asked about
MaxPaths == 3

\* the number of commands run one after the other from an empty store
MaxFreshRuns == 3

(***************************************************************************)
(* Paths and nodes.  A path is the sequence of its components, <<>> is "/".*)
(* The file system maps each physical path that exists to its node; a path *)
(* outside DOMAIN f does not exist.  Contents are small integers, 0 is the *)
(* empty file.  Link targets are absolute paths (the program only creates  *)
(* absolute links: fs.rs:222 with canonicalized arguments).                *)
(***************************************************************************)
Parent(p) == SubSeq(p, 1, Len(p) - 1)

Name(p) == p[Len(p)]

IsPrefix(p, q) == Len(p) <= Len(q) /\ SubSeq(q, 1, Len(p)) = p

Join(p, q) == p \o q

File(c) == [k |-> "file", c |-> c, t |-> <<>>]

Dir == [k |-> "dir", c |-> 0, t |-> <<>>]

Link(t) == [k |-> "link", c |-> 0, t |-> t]

Children(f, p) == {q \in DOMAIN f : Len(q) = Len(p) + 1 /\ IsPrefix(p, q)}

Below(f, p) == {q \in DOMAIN f : IsPrefix(p, q)}

Put(f, p, n) == [q \in DOMAIN f \cup {p} |-> IF q = p THEN n ELSE f[q]]

Drop(f, S) == [q \in DOMAIN f \ S |-> f[q]]

(***************************************************************************)
(* Path resolution (realpath): components left to right, a link restarts   *)
(* the walk at its target, a file or a hole in the middle fails it.        *)
(* Operators named ...Of / ...At take the result of a resolution as an     *)
(* argument, so that it is written (and evaluated) once.                   *)
(***************************************************************************)
PathOk(p) == [ok |-> TRUE, p |-> p, e |-> ""]

PathErr(e) == [ok |-> FALSE, p |-> <<>>, e |-> e]

RECURSIVE Walk(_, _, _, _)
Walk(f, cur, rest, hops) ==
    IF rest = <<>> THEN PathOk(cur)
    ELSE LET nxt == Append(cur, Head(rest)) IN
         IF nxt \notin DOMAIN f THEN PathErr("ENOENT")
         ELSE IF f[nxt].k = "link"
              THEN IF hops = 0 THEN PathErr("ELOOP")
                   ELSE Walk(f, <<>>, f[nxt].t \o Tail(rest), hops - 1)
         ELSE IF f[nxt].k = "file" /\ Tail(rest) # <<>> THEN PathErr("ENOTDIR")
         ELSE Walk(f, nxt, Tail(rest), hops)

\* std::fs::canonicalize
Canonicalize(f, p) == Walk(f, <<>>, p, MaxHops)

\* the resolved path r is a directory / a file
DirAt(f, r) == r.ok /\ (r.p = <<>> \/ f[r.p].k = "dir")

FileAt(f, r) == r.ok /\ r.p # <<>> /\ f[r.p].k = "file"

\* Path::exists, Path::is_dir, Path::is_file: all follow links
Exists(f, p) == Canonicalize(f, p).ok

IsDir(f, p) == DirAt(f, Canonicalize(f, p))

IsFile(f, p) == FileAt(f, Canonicalize(f, p))

\* where the last component of p physically lives, r its parent resolved
PhysOf(f, p, r) ==
    IF ~r.ok THEN r
    ELSE IF ~DirAt(f, r) THEN PathErr("ENOTDIR")
    ELSE PathOk(Append(r.p, Name(p)))

Phys(f, p) ==
    IF p = <<>> THEN PathOk(<<>>) ELSE PhysOf(f, p, Canonicalize(f, Parent(p)))

\* lstat: the node at p itself, links not followed at the last component
LstatAt(f, ph) ==
    IF ~ph.ok THEN [ok |-> FALSE, e |-> ph.e, n |-> Dir]
    ELSE IF ph.p = <<>> THEN [ok |-> TRUE, e |-> "", n |-> Dir]
    ELSE IF ph.p \notin DOMAIN f THEN [ok |-> FALSE, e |-> "ENOENT", n |-> Dir]
    ELSE [ok |-> TRUE, e |-> "", n |-> f[ph.p]]

Lstat(f, p) == LstatAt(f, Phys(f, p))

\* the content a path leads to: a file's content, -1 for anything else
ContentOf(f, r) == IF FileAt(f, r) THEN f[r.p].c ELSE -1

ContentAt(f, p) == ContentOf(f, Canonicalize(f, p))

(***************************************************************************)
(* The system calls the program makes, as functions from a file system to  *)
(* [ok, fs]: a failed call leaves the file system as it was.               *)
(***************************************************************************)
SysOk(f) == [ok |-> TRUE, fs |-> f]

SysErr(f) == [ok |-> FALSE, fs |-> f]

\* mkdir(2) at the physical path ph
MkdirAt(f, ph) ==
    IF ph.ok /\ ph.p \notin DOMAIN f THEN SysOk(Put(f, ph.p, Dir)) ELSE SysErr(f)

\* std::fs::create_dir_all: mkdir, on ENOENT the parent first, EEXIST is
\* fine when the path is (or leads to) a directory
RECURSIVE SysCreateDirAll(_, _)
RECURSIVE CreateDirAt(_, _, _)
RECURSIVE CreateDirIn(_, _)
SysCreateDirAll(f, p) ==
    IF p = <<>> \/ IsDir(f, p) THEN SysOk(f) ELSE CreateDirAt(f, p, Phys(f, p))

CreateDirAt(f, p, ph) ==
    IF ph.ok THEN MkdirAt(f, ph)
    ELSE IF ph.e # "ENOENT" THEN SysErr(f)
    ELSE CreateDirIn(SysCreateDirAll(f, Parent(p)), p)

CreateDirIn(r, p) == IF ~r.ok THEN r ELSE MkdirAt(r.fs, Phys(r.fs, p))

\* rename(2): moves the node at `from` itself (a link is not followed) with
\* everything below it; replaces a file by a non-directory and an empty
\* directory by a directory; refuses to move a directory into itself
RenameAt(f, pf, pt) ==
    IF ~pf.ok \/ ~pt.ok \/ pf.p = <<>> \/ pt.p = <<>> THEN SysErr(f)
    ELSE IF pf.p \notin DOMAIN f THEN SysErr(f)
    ELSE IF pf.p = pt.p THEN SysOk(f)
    ELSE IF IsPrefix(pf.p, pt.p) \/ IsPrefix(pt.p, pf.p) THEN SysErr(f)
    ELSE IF pt.p \in DOMAIN f /\ f[pf.p].k = "dir"
            /\ (f[pt.p].k # "dir" \/ Children(f, pt.p) # {})
         THEN SysErr(f)
    ELSE IF pt.p \in DOMAIN f /\ f[pf.p].k # "dir" /\ f[pt.p].k = "dir"
         THEN SysErr(f)
    ELSE SysOk([x \in (DOMAIN f \ (Below(f, pf.p) \cup {pt.p}))
                      \cup {pt.p \o SubSeq(q, Len(pf.p) + 1, Len(q)) :
                               q \in Below(f, pf.p)} |->
                  IF x \in DOMAIN f /\ x # pt.p /\ ~IsPrefix(pf.p, x) THEN f[x]
                  ELSE f[pf.p \o SubSeq(x, Len(pt.p) + 1, Len(x))]])

SysRename(f, from, to) == RenameAt(f, Phys(f, from), Phys(f, to))

\* symlink(2): EEXIST when anything, even a dangling link, is at `link`
SymlinkAt(f, original, pl) ==
    IF ~pl.ok \/ pl.p = <<>> \/ pl.p \in DOMAIN f THEN SysErr(f)
    ELSE SysOk(Put(f, pl.p, Link(original)))

SysSymlink(f, original, link) == SymlinkAt(f, original, Phys(f, link))

\* std::fs::remove_file (unlink): removes a file or the link itself
RemoveFileAt(f, ph) ==
    IF ~ph.ok \/ ph.p \notin DOMAIN f THEN SysErr(f)
    ELSE IF f[ph.p].k = "dir" THEN SysErr(f)
    ELSE SysOk(Drop(f, {ph.p}))

SysRemoveFile(f, p) == RemoveFileAt(f, Phys(f, p))

\* std::fs::remove_dir (rmdir): only an empty directory, links not followed
RemoveDirAt(f, ph) ==
    IF ~ph.ok \/ ph.p \notin DOMAIN f THEN SysErr(f)
    ELSE IF f[ph.p].k # "dir" \/ Children(f, ph.p) # {} THEN SysErr(f)
    ELSE SysOk(Drop(f, {ph.p}))

SysRemoveDir(f, p) == RemoveDirAt(f, Phys(f, p))

\* Path::read_dir: the entries of the directory p leads to, each named
\* p joined with the entry's name (the path as given, not resolved)
ReadDirAt(f, r) ==
    IF DirAt(f, r)
    THEN [ok |-> TRUE, names |-> {Name(q) : q \in Children(f, r.p)}]
    ELSE [ok |-> FALSE, names |-> {}]

SysReadDir(f, p) == ReadDirAt(f, Canonicalize(f, p))

\* a set of names as a sequence, in the order the directory lists them
RECURSIVE SetToSeq(_)
SetToSeq(S) ==
    IF S = {} THEN <<>>
    ELSE LET x == CHOOSE y \in S : TRUE IN <<x>> \o SetToSeq(S \ {x})

\* where open(O_CREAT | O_TRUNC) on p writes: a link at p is followed
RECURSIVE OpenForWrite(_, _, _)
RECURSIVE OpenAt(_, _, _)
OpenForWrite(f, p, hops) == OpenAt(f, Phys(f, p), hops)

OpenAt(f, ph, hops) ==
    IF ~ph.ok \/ ph.p = <<>> THEN PathErr("ENOENT")
    ELSE IF ph.p \notin DOMAIN f THEN PathOk(ph.p)
    ELSE IF f[ph.p].k = "dir" THEN PathErr("EISDIR")
    ELSE IF f[ph.p].k = "file" THEN PathOk(ph.p)
    ELSE IF hops = 0 THEN PathErr("ELOOP")
    ELSE OpenForWrite(f, f[ph.p].t, hops - 1)

\* std::fs::copy: opens the source, then truncates the destination: a file
\* copied onto itself ends up empty
CopyFileAt(f, s, d) ==
    IF ~FileAt(f, s) \/ ~d.ok THEN SysErr(f)
    ELSE SysOk(Put(f, d.p, File(IF d.p = s.p THEN 0 ELSE f[s.p].c)))

SysCopyFile(f, source, destination) ==
    CopyFileAt(f, Canonicalize(f, source), OpenForWrite(f, destination, MaxHops))

(***************************************************************************)
(* src/utils/fs.rs.  Every function returns [ok, val, err, fs, sys]: the   *)
(* Result (err names the format! that built the message), the file system  *)
(* it leaves and the mutating steps it took, in order.  flt names the one  *)
(* system call that the environment makes fail during the call (another    *)
(* device, a permission, a full disk), "none" for no such failure.  An     *)
(* operator that takes a result (c, r, d, m, l) is the rest of the         *)
(* function after the call that produced it.                               *)
(***************************************************************************)
Faults == {"none", "rename", "symlink", "remove", "copy"}

Ev(op, a, b, ok, inj) == [op |-> op, a |-> a, b |-> b, ok |-> ok, inj |-> inj]

Res(ok, val, err, f, sys) ==
    [ok |-> ok, val |-> val, err |-> err, fs |-> f, sys |-> sys]

\* the Result of a function around one system call: Ok, or Err(msg)
Wrap(r, op, a, b, msg, inj) ==
    Res(r.ok, FALSE, IF r.ok THEN "" ELSE msg, r.fs, <<Ev(op, a, b, r.ok, inj)>>)

\* a Result after the steps sys already taken
After(sys, r) == Res(r.ok, r.val, r.err, r.fs, sys \o r.sys)

\* fs.rs:202 create_parent_dir
parent_created(r) ==
    Res(r.ok, FALSE, IF r.ok THEN "" ELSE "failed to create directory", r.fs, <<>>)

create_parent_dir(f, path) ==
    IF path = <<>> THEN Res(TRUE, FALSE, "", f, <<>>)
    ELSE parent_created(SysCreateDirAll(f, Parent(path)))

\* fs.rs:164-172 rename after create_parent_dir
rename_in(c, from, to, flt) ==
    IF ~c.ok THEN c
    ELSE Wrap(IF flt = "rename" THEN SysErr(c.fs) ELSE SysRename(c.fs, from, to),
              "rename", from, to, "failed to move", flt = "rename")

\* a Result with its error dropped
Forgiven(r) == [r EXCEPT !.ok = TRUE, !.err = ""]

\* rename with the error of fs::rename dropped: the call reports success
rename_ignores_error(f, from, to, flt) ==
    Forgiven(rename_in(create_parent_dir(f, to), from, to, flt))

\* fs.rs:161 rename
rename(f, from, to, flt) == rename_in(create_parent_dir(f, to), from, to, flt)

\* fs.rs:222-230 symlink after create_parent_dir
symlink_in(c, original, link, flt) ==
    IF ~c.ok THEN c
    ELSE Wrap(IF flt = "symlink" THEN SysErr(c.fs)
              ELSE SysSymlink(c.fs, original, link),
              "symlink", original, link, "failed to create symlink",
              flt = "symlink")

\* fs.rs:215 symlink
symlink(f, original, link, flt) ==
    symlink_in(create_parent_dir(f, link), original, link, flt)

\* fs.rs:233 symlink_metadata: Ok(Some), Ok(None) on NotFound, Err otherwise
metadata_of(m) ==
    IF m.ok THEN [ok |-> TRUE, some |-> TRUE, n |-> m.n]
    ELSE IF m.e = "ENOENT" THEN [ok |-> TRUE, some |-> FALSE, n |-> Dir]
    ELSE [ok |-> FALSE, some |-> FALSE, n |-> Dir]

symlink_metadata(f, path) == metadata_of(Lstat(f, path))

\* a remove that follows a link and deletes what the link resolves to
remove_resolved(f, path, flt) ==
    Wrap(IF flt = "remove" THEN SysErr(f)
         ELSE SysRemoveFile(f, IF Canonicalize(f, path).ok
                               THEN Canonicalize(f, path).p ELSE path),
         "remove", path, <<>>, "unable to delete", flt = "remove")

\* fs.rs:245 remove
remove(f, path, flt) ==
    Wrap(IF flt = "remove" THEN SysErr(f) ELSE SysRemoveFile(f, path),
         "remove", path, <<>>, "unable to delete", flt = "remove")

\* fs.rs:189 copy_recursively: [ok, fs]; a directory's entries in turn
RECURSIVE copy_recursively(_, _, _, _)
RECURSIVE copy_dir(_, _, _, _)
RECURSIVE copy_list(_, _, _, _, _)
RECURSIVE copy_entries(_, _, _, _, _)
RECURSIVE copy_rest(_, _, _, _, _)
copy_recursively(f, source, destination, depth) ==
    IF IsFile(f, source) THEN SysCopyFile(f, source, destination)
    ELSE copy_dir(SysCreateDirAll(f, destination), source, destination, depth)

copy_dir(d, source, destination, depth) ==
    IF ~d.ok THEN d
    ELSE copy_list(d.fs, SysReadDir(d.fs, source), source, destination, depth)

copy_list(f, l, source, destination, depth) ==
    IF ~l.ok \/ depth = 0 THEN SysErr(f)
    ELSE copy_entries(f, source, destination, SetToSeq(l.names), depth - 1)

copy_entries(f, source, destination, names, depth) ==
    IF names = <<>> THEN SysOk(f)
    ELSE copy_rest(copy_recursively(f, Append(source, Head(names)),
                                    Append(destination, Head(names)), depth),
                   source, destination, Tail(names), depth)

copy_rest(r, source, destination, names, depth) ==
    IF ~r.ok THEN r ELSE copy_entries(r.fs, source, destination, names, depth)

\* fs.rs:178-186 copy after create_parent_dir
copy_in(c, from, to, flt) ==
    IF ~c.ok THEN c
    ELSE Wrap(IF flt = "copy" THEN SysErr(c.fs)
              ELSE copy_recursively(c.fs, from, to, MaxDepth),
              "copy", from, to, "failed to copy", flt = "copy")

\* fs.rs:175 copy
copy(f, from, to, flt) == copy_in(create_parent_dir(f, to), from, to, flt)

\* fs.rs:10-23 move_then_symlink, the store target exists: Ok(false) when
\* `from` is a link whose canonical form is `to`, the conflict otherwise
mts_check(f, m, resolved_to, to) ==
    IF ~m.ok THEN Res(FALSE, FALSE, "unable to get metadata", f, <<>>)
    ELSE IF m.some /\ m.n.k = "link" /\ resolved_to.ok /\ resolved_to.p = to
         THEN Res(TRUE, FALSE, "", f, <<>>)
    ELSE Res(FALSE, FALSE, "already exists in repo", f, <<>>)

mts_existing(f, from, to) ==
    mts_check(f, symlink_metadata(f, from), Canonicalize(f, from), to)

\* fs.rs:27-29 move_then_symlink after the link step
mts_done(r, l) == Res(l.ok, l.ok, l.err, l.fs, r.sys \o l.sys)

\* fs.rs:26-27 move_then_symlink after the rename step
mts_link(r, from, to, flt) ==
    IF ~r.ok THEN r ELSE mts_done(r, symlink(r.fs, to, from, flt))

\* the link step undoing the rename when the link cannot be made
mts_undo(r, l, from, to) ==
    IF l.ok THEN mts_done(r, l)
    ELSE Res(FALSE, FALSE, l.err, SysRename(l.fs, to, from).fs,
             r.sys \o l.sys \o <<Ev("rename", to, from, TRUE, FALSE)>>)

mts_link_undo(r, from, to, flt) ==
    IF ~r.ok THEN r ELSE mts_undo(r, symlink(r.fs, to, from, flt), from, to)

\* mts_move undoing the rename when the link cannot be made
mts_move_rollback(f, from, to, flt) ==
    mts_link_undo(rename(f, from, to, flt), from, to, flt)

\* fs.rs:26-29 move_then_symlink, the store target is free: rename, then link
mts_move(f, from, to, flt) == mts_link(rename(f, from, to, flt), from, to, flt)

\* move_then_symlink without the look at the store target
move_then_symlink_unchecked(f, from, to, flt) == mts_move(f, from, to, flt)

\* fs.rs:8 move_then_symlink: val is the bool of Ok(bool)
move_then_symlink(f, from, to, flt) ==
    IF Exists(f, to) THEN mts_existing(f, from, to) ELSE mts_move(f, from, to, flt)

\* fs.rs:86-90 the tail of restore: the link or the copy
restore_create(f, from, to, symlinks, flt, sys) ==
    After(sys, IF symlinks THEN symlink(f, from, to, flt)
               ELSE copy(f, from, to, flt))

\* fs.rs:56, 64, 80 the ? on the step that clears `to`, then the tail
restore_after(d, from, to, symlinks, flt) ==
    IF ~d.ok THEN d ELSE restore_create(d.fs, from, to, symlinks, flt, d.sys)

\* restore_linked copying without removing the link first
restore_linked_keeps_link(f, from, to, symlinks, flt) ==
    IF symlinks THEN Res(TRUE, FALSE, "", f, <<>>)
    ELSE restore_create(f, from, to, symlinks, flt, <<>>)

\* fs.rs:50-57 restore, `to` is a link whose canonical form is `from`
restore_linked(f, from, to, symlinks, flt) ==
    IF symlinks THEN Res(TRUE, FALSE, "", f, <<>>)
    ELSE restore_after(remove(f, to, flt), from, to, symlinks, flt)

\* restore_stale moving the link into the temp dir like a file
restore_stale_displaces(f, from, to, overwrite, symlinks, flt) ==
    IF overwrite # <<>>
    THEN restore_after(rename(f, to, overwrite[1], flt), from, to, symlinks, flt)
    ELSE Res(FALSE, FALSE, "not overwriting symlink", f, <<>>)

\* restore_stale removing the link whatever overwrite says
restore_stale_always(f, from, to, overwrite, symlinks, flt) ==
    restore_after(remove(f, to, flt), from, to, symlinks, flt)

\* fs.rs:58-71 restore, `to` is a link that resolves somewhere else
restore_stale(f, from, to, overwrite, symlinks, flt) ==
    IF overwrite # <<>>
    THEN restore_after(remove(f, to, flt), from, to, symlinks, flt)
    ELSE Res(FALSE, FALSE, "not overwriting symlink", f, <<>>)

\* fs.rs:72-84 restore, `to` is a file or a directory
restore_existing(f, from, to, overwrite, symlinks, flt) ==
    IF overwrite # <<>>
    THEN restore_after(rename(f, to, overwrite[1], flt), from, to, symlinks, flt)
    ELSE Res(FALSE, FALSE, "not overwriting existing file", f, <<>>)

\* restore_link without the is_symlink distinction: the link is displaced
\* like a file
restore_link_as_existing(f, from, to, overwrite, symlinks, flt) ==
    restore_existing(f, from, to, overwrite, symlinks, flt)

\* fs.rs:45-71 restore after fs::canonicalize(to): a link that does not
\* resolve is an error whatever overwrite says
restore_resolved(f, resolved_to, from, to, overwrite, symlinks, flt) ==
    IF ~resolved_to.ok THEN Res(FALSE, FALSE, "failed to resolve", f, <<>>)
    ELSE IF resolved_to.p = from THEN restore_linked(f, from, to, symlinks, flt)
    ELSE restore_stale(f, from, to, overwrite, symlinks, flt)

\* fs.rs:44-71 restore, `to` is a link
restore_link(f, from, to, overwrite, symlinks, flt) ==
    restore_resolved(f, Canonicalize(f, to), from, to, overwrite, symlinks, flt)

\* fs.rs:41-90 restore after symlink_metadata(to)
restore_at(f, m, from, to, overwrite, symlinks, flt) ==
    IF ~m.ok THEN Res(FALSE, FALSE, "unable to get metadata", f, <<>>)
    ELSE IF ~m.some THEN restore_create(f, from, to, symlinks, flt, <<>>)
    ELSE IF m.n.k = "link"
         THEN restore_link(f, from, to, overwrite, symlinks, flt)
    ELSE restore_existing(f, from, to, overwrite, symlinks, flt)

\* restore without the look at the store path
restore_unchecked(f, from, to, overwrite, symlinks, flt) ==
    restore_at(f, symlink_metadata(f, to), from, to, overwrite, symlinks, flt)

\* fs.rs:32 restore: overwrite is <<>> for None and <<path>> for Some(path)
restore(f, from, to, overwrite, symlinks, flt) ==
    IF ~Exists(f, from) THEN Res(FALSE, FALSE, "does not exist", f, <<>>)
    ELSE restore_at(f, symlink_metadata(f, to), from, to, overwrite, symlinks, flt)

(***************************************************************************)
(* src/utils/path.rs.  A &Path given by the user is [abs, comps]: whether  *)
(* it starts at "/" and its components (none of them "~" or ".."); a       *)
(* relative one is taken from the working directory cwd.  A canonical path *)
(* is absolute and is the sequence of its components, as everywhere else.  *)
(***************************************************************************)
AbsPath(p) == [abs |-> TRUE, comps |-> p]

RelPath(p) == [abs |-> FALSE, comps |-> p]

\* the absolute path the system looks at for `path`
Resolved(cwd, path) == IF path.abs THEN path.comps ELSE cwd \o path.comps

\* Path::exists: the empty path "" does not exist
path_exists(f, cwd, path) ==
    (path.abs \/ path.comps # <<>>) /\ Exists(f, Resolved(cwd, path))

\* PathBuf::join: an absolute `path` replaces the base
path_join(base, path) == IF path.abs THEN path.comps ELSE base \o path.comps

\* path.rs:42 canonicalize_missing of a missing path: the parent's
\* canonical form joined with the whole of `path`
joined(r, path) == IF ~r.ok THEN r ELSE PathOk(path_join(r.p, path))

\* path.rs:26 canonicalize_missing: Path::parent is None for "/" and ""
RECURSIVE canonicalize_missing(_, _, _)
canonicalize_missing(f, cwd, path) ==
    IF path_exists(f, cwd, path) THEN Canonicalize(f, Resolved(cwd, path))
    ELSE IF path.comps = <<>> THEN PathErr("unknown parent")
    ELSE joined(canonicalize_missing(f, cwd, [path EXCEPT !.comps = Parent(@)]),
                path)

\* path.rs:4 canonicalize (expand_home leaves a path without "~" as it is)
canonicalize(f, cwd, path) == canonicalize_missing(f, cwd, path)

\* relative_from_root taking the root itself for one of its children
relative_or_root(root, path) ==
    IF ~IsPrefix(root, path)
    THEN [ok |-> FALSE, err |-> "must be a child of", rel |-> <<>>]
    ELSE [ok |-> TRUE, err |-> "",
          rel |-> SubSeq(path, Len(root) + 1, Len(path))]

\* path.rs:69 relative_from_root
relative_from_root(root, path) ==
    IF ~IsPrefix(root, path)
    THEN [ok |-> FALSE, err |-> "must be a child of", rel |-> <<>>]
    ELSE IF Len(path) = Len(root)
    THEN [ok |-> FALSE, err |-> "cannot add repository path", rel |-> <<>>]
    ELSE [ok |-> TRUE, err |-> "",
          rel |-> SubSeq(path, Len(root) + 1, Len(path))]

\* Path::components: RootDir ("/") comes first for an absolute path
components(path) == (IF path.abs THEN <<"/">> ELSE <<>>) \o path.comps

\* the PathBuf that the components c were pushed into, in order
pushed(c) == IF c # <<>> /\ Head(c) = "/" THEN AbsPath(Tail(c)) ELSE RelPath(c)

\* path.rs:94-100 common_base_path: the zip of the components of accum and
\* item, pushed until the first pair that differs
RECURSIVE common(_, _)
common(left, right) ==
    IF left = <<>> \/ right = <<>> \/ Head(left) # Head(right) THEN <<>>
    ELSE <<Head(left)>> \o common(Tail(left), Tail(right))

\* path.rs:90-102 common_base_path: the closure of the fold; an empty accum
\* is replaced by the item
common_of(accum, item) ==
    IF components(accum) = <<>> THEN item
    ELSE pushed(common(components(accum), components(item)))

RECURSIVE fold_common(_, _)
fold_common(accum, paths) ==
    IF paths = <<>> THEN accum
    ELSE fold_common(common_of(accum, Head(paths)), Tail(paths))

\* path.rs:89 common_base_path
common_base_path(paths) == fold_common(RelPath(<<>>), paths)

(***************************************************************************)
(* src/utils/fs.rs: directory listing and the overwrite temp dir.          *)
(***************************************************************************)
\* fs.rs:143 read_dir: the entries as dir joined with their names
read_dir_of(l, dir) ==
    [ok |-> l.ok,
     paths |-> [i \in 1..Cardinality(l.names) |->
                   Append(dir, SetToSeq(l.names)[i])]]

read_dir(f, dir) == read_dir_of(SysReadDir(f, dir), dir)

\* fs.rs:132 is_empty: Ok(true)
is_empty_of(l) == l.ok /\ l.names = {}

is_empty(f, dir) == is_empty_of(SysReadDir(f, dir))

\* fs.rs:111 create_overwrite_temp_dir: tmp is <<temp_dir>> once created
temp_created(r, temp_dir) ==
    [ok |-> r.ok, err |-> IF r.ok THEN "" ELSE "failed to create temp dir",
     fs |-> r.fs, tmp |-> IF r.ok THEN <<temp_dir>> ELSE <<>>]

create_overwrite_temp_dir(f, temp_dir) ==
    temp_created(MkdirAt(f, Phys(f, temp_dir)), temp_dir)

\* an OverwriteTempDir that is never cleaned up
keep_temp_dir(f, tmp) == f

\* fs.rs:97-103 Drop for OverwriteTempDir: the file system it leaves
drop_temp_dir(f, tmp) ==
    IF tmp # <<>> /\ is_empty(f, tmp[1]) THEN SysRemoveDir(f, tmp[1]).fs
    ELSE f

(***************************************************************************)
(* src/utils/git.rs, as far as the commands depend on it: whether a path   *)
(* opens as a repository, and the mutations of the store's repository in   *)
(* the order add makes them.  gitflt names the one mutation that fails.    *)
(***************************************************************************)
\* a check_open that takes nothing for a repository
never_open(f, path) == FALSE

\* git.rs:80 check_open: the directory holds a .git entry
check_open(f, path) == IsDir(f, path) /\ Exists(f, Append(path, ".git"))

GitFaults ==
    {"none", "unstage_all", "add_submodules", "stage_all_paths", "commit"}

GitOp(op, paths) == [op |-> op, paths |-> paths, ok |-> TRUE]

\* cmds.rs:51-54 the mutations add asks for, in order
GitOps(to_commit, submodules) ==
    << GitOp("unstage_all", <<>>), GitOp("add_submodules", submodules),
       GitOp("stage_all_paths", to_commit), GitOp("commit", to_commit) >>

\* the steps that can fail with gitflt (git.rs:181: add_submodules without
\* submodules does nothing)
GitFails(ops, gitflt) ==
    {i \in 1..Len(ops) : ops[i].op = gitflt
        /\ (gitflt = "add_submodules" => ops[i].paths # <<>>)}

\* the ? after each mutation: the steps up to the first that fails
GitRun(ops, bad) ==
    IF bad = {} THEN [ok |-> TRUE, err |-> "", git |-> ops]
    ELSE [ok |-> FALSE, err |-> ops[CHOOSE k \in bad : TRUE].op,
          git |-> [i \in 1..(CHOOSE k \in bad : TRUE) |->
                      [ops[i] EXCEPT !.ok = (i \notin bad)]]]

(***************************************************************************)
(* src/cmds.rs.                                                            *)
(***************************************************************************)
\* the working directory of the commands (the paths they are given are
\* absolute)
Cwd == <<"home">>

Leaf(path, type) == [path |-> path, type |-> type]

FlatOk(leaves) == [ok |-> TRUE, err |-> "", leaves |-> leaves]

FlatErr(err) == [ok |-> FALSE, err |-> err, leaves |-> <<>>]

\* cmds.rs:141-146 flatten_paths_to_add: each requested path must exist and
\* is pushed in its canonical form
RECURSIVE flatten_seed(_, _, _)
RECURSIVE flatten_push(_, _, _, _)
\* flatten_seed leaving out the requested paths that do not exist
flatten_seed_skipping(f, paths, stack) ==
    IF paths = <<>> THEN [ok |-> TRUE, err |-> "", stack |-> stack]
    ELSE IF ~Exists(f, Head(paths)) THEN flatten_seed(f, Tail(paths), stack)
    ELSE flatten_push(f, canonicalize(f, Cwd, AbsPath(Head(paths))), Tail(paths),
                      stack)

flatten_seed(f, paths, stack) ==
    IF paths = <<>> THEN [ok |-> TRUE, err |-> "", stack |-> stack]
    ELSE IF ~Exists(f, Head(paths))
    THEN [ok |-> FALSE, err |-> "does not exist", stack |-> <<>>]
    ELSE flatten_push(f, canonicalize(f, Cwd, AbsPath(Head(paths))), Tail(paths),
                      stack)

flatten_push(f, c, paths, stack) ==
    IF ~c.ok
    THEN [ok |-> FALSE, err |-> "failed to get the canonical path",
          stack |-> <<>>]
    ELSE flatten_seed(f, paths, Append(stack, c.p))

\* cmds.rs:150-160 flatten_paths_to_add: the stack popped until it is empty
RECURSIVE flatten_pop(_, _, _, _)
RECURSIVE flatten_entry(_, _, _, _, _)
RECURSIVE flatten_dir(_, _, _, _, _)
flatten_pop(f, stack, flattened, visits) ==
    IF stack = <<>> THEN FlatOk(flattened)
    ELSE IF visits = 0 THEN FlatErr("too many paths")
    ELSE flatten_entry(f, stack[Len(stack)], SubSeq(stack, 1, Len(stack) - 1),
                       flattened, visits - 1)

flatten_entry(f, path, rest, flattened, visits) ==
    IF ~IsDir(f, path)
    THEN flatten_pop(f, rest, Append(flattened, Leaf(path, "File")), visits)
    ELSE IF check_open(f, path)
    THEN flatten_pop(f, rest, Append(flattened, Leaf(path, "GitRepo")), visits)
    ELSE flatten_dir(f, read_dir(f, path), rest, flattened, visits)

\* a flatten_paths_to_add that does not look into directories
flatten_dir_shallow(f, d, rest, flattened, visits) ==
    flatten_pop(f, rest, flattened, visits)

flatten_dir(f, d, rest, flattened, visits) ==
    IF ~d.ok THEN FlatErr("Failed to read dir")
    ELSE flatten_pop(f, rest \o d.paths, flattened, visits)

flatten_stack(f, s) ==
    IF ~s.ok THEN FlatErr(s.err) ELSE flatten_pop(f, s.stack, <<>>, MaxVisits)

\* cmds.rs:138 flatten_paths_to_add
flatten_paths_to_add(f, paths) == flatten_stack(f, flatten_seed(f, paths, <<>>))

\* cmds.rs:167-177 move_to_dotty_repo after relative_from_root: val is
\* TRUE for Ok(Some(relative_path)) and FALSE for Ok(None)
move_to_repo_at(f, rel, repo, path, flt) ==
    IF ~rel.ok THEN Res(FALSE, FALSE, rel.err, f, <<>>)
    ELSE move_then_symlink(f, path, Join(repo, rel.rel), flt)

\* cmds.rs:165 move_to_dotty_repo
move_to_dotty_repo(f, repo, root, path, flt) ==
    move_to_repo_at(f, relative_from_root(root, path), repo, path, flt)

\* cmds.rs:49-55 add, after the leaves: the commit of what was moved
commit_moved(f, repo, to_commit, submodules, gitflt) ==
    IF to_commit = <<>> THEN [ok |-> TRUE, err |-> "", git |-> <<>>]
    ELSE IF ~check_open(f, repo)
    THEN [ok |-> FALSE, err |-> "failed to open git repository", git |-> <<>>]
    ELSE GitRun(GitOps(to_commit, submodules),
                GitFails(GitOps(to_commit, submodules), gitflt))

\* a restore that takes every entry of the store
top_level_all(paths) == paths

\* cmds.rs:78-83 restore: the store's entries but .git and .gitmodules
top_level_repo_paths(paths) ==
    SelectSeq(paths, LAMBDA p : Name(p) \notin {".git", ".gitmodules"})

Plan(ok, err, f, tmp, queue) ==
    [ok |-> ok, err |-> err, fs |-> f, tmp |-> tmp, queue |-> queue]

\* cmds.rs:85-88 restore: the leaves' paths
paths_to_restore(t, fl) ==
    Plan(fl.ok, fl.err, t.fs, t.tmp,
         [i \in 1..Len(fl.leaves) |-> fl.leaves[i].path])

\* cmds.rs:76-85 restore after read_dir(repo)
restore_listed(t, d) ==
    IF ~d.ok THEN Plan(FALSE, "Failed to read dir", t.fs, t.tmp, <<>>)
    ELSE paths_to_restore(t, flatten_paths_to_add(t.fs,
                                                  top_level_repo_paths(d.paths)))

\* cmds.rs:71-76 restore after create_overwrite_temp_dir
restore_in(t, repo) ==
    IF ~t.ok THEN Plan(FALSE, t.err, t.fs, <<>>, <<>>)
    ELSE restore_listed(t, read_dir(t.fs, repo))

\* cmds.rs:70-88 restore up to its loop: the temp dir, then what to restore
restore_begin(f, repo, overwrite, temp_dir) ==
    restore_in(IF overwrite THEN create_overwrite_temp_dir(f, temp_dir)
               ELSE [ok |-> TRUE, err |-> "", fs |-> f, tmp |-> <<>>],
               repo)

\* cmds.rs:91-95 restore: one turn of the loop after relative_from_root
restore_entry_at(f, rel, from, root, tmp, symlinks, flt) ==
    IF ~rel.ok THEN Res(FALSE, FALSE, rel.err, f, <<>>)
    ELSE restore(f, from, Join(root, rel.rel),
                 IF tmp = <<>> THEN <<>> ELSE <<Join(tmp[1], rel.rel)>>,
                 symlinks, flt)

restore_entry(f, repo, root, from, tmp, symlinks, flt) ==
    restore_entry_at(f, relative_from_root(repo, from), from, root, tmp,
                     symlinks, flt)

(***************************************************************************)
(* The layout the model runs in: the root /home, the store /home/.dotty    *)
(* (the default: the root is the store's parent, path.rs:55), one managed  *)
(* relative path c/a, an unrelated file /home/e and the overwrite temp dir.*)
(***************************************************************************)
Root == <<"home">>

Repo == <<"home", ".dotty">>

TempDir == <<"tmp", "dotty-aaaaaaa">>

Rel == <<"c", "a">>

Orig == Join(Root, Rel)

Store == Join(Repo, Rel)

Else == <<"home", "e">>

OrigKinds == {"absent", "file", "dir", "toStore", "toElse"}

StoreKinds == {"absent", "file", "dir", "toElse"}

ElseKinds == {"absent", "file"}

\* the entries an initial choice puts at path p
Entry(p, kind, c) ==
    CASE kind = "file" -> <<<<p, File(c)>>>>
      [] kind = "dir" -> <<<<p, Dir>>, <<Append(p, "f"), File(c)>>>>
      [] kind = "toStore" -> <<<<p, Link(Store)>>>>
      [] kind = "toElse" -> <<<<p, Link(Else)>>>>
      [] OTHER -> <<>>

MkFs(es) ==
    [p \in {es[i][1] : i \in 1..Len(es)} |->
        es[CHOOSE i \in 1..Len(es) : es[i][1] = p][2]]

BaseEntries ==
    << <<<<"home">>, Dir>>, <<Repo, Dir>>, <<Append(Repo, ".git"), Dir>>,
       <<<<"home", "c">>, Dir>>, <<<<"tmp">>, Dir>>, <<TempDir, Dir>> >>

InitialFs(ok, sk, ek) ==
    MkFs(BaseEntries
         \o Entry(Orig, ok, 1)
         \o (IF sk = "absent" THEN <<>> ELSE <<<<Parent(Store), Dir>>>>)
         \o Entry(Store, sk, 2)
         \o Entry(Else, ek, 3))

\* no function of path.rs has been asked anything yet
NoQuery ==
    [fn |-> "none", root |-> <<>>, path |-> <<>>, cwd |-> <<>>,
     arg |-> AbsPath(<<>>), ok |-> TRUE, err |-> "", val |-> <<>>,
     paths |-> <<>>, base |-> RelPath(<<>>)]

NoCall ==
    [op |-> "none", from |-> <<>>, to |-> <<>>, ow |-> <<>>, sym |-> FALSE,
     flt |-> "none", ok |-> TRUE, val |-> FALSE, err |-> "", sys |-> <<>>,
     pre |-> <<>>]

Call(op, from, to, ow, sym, flt, r, pre) ==
    [op |-> op, from |-> from, to |-> to, ow |-> ow, sym |-> sym, flt |-> flt,
     ok |-> r.ok, val |-> r.val, err |-> r.err, sys |-> r.sys, pre |-> pre]

\* no command has run yet
NoRun ==
    [cmd |-> "none", pc |-> "idle", args |-> <<>>, sym |-> FALSE,
     tmp |-> <<>>, plan |-> <<>>, queue |-> <<>>, to_commit |-> <<>>,
     submodules |-> <<>>,
     reports |-> <<>>, displaced |-> <<>>, git |-> <<>>, ok |-> TRUE,
     err |-> "", pre |-> <<>>, premoved |-> {}, config |-> <<>>,
     inj |-> FALSE, mflt |-> "none"]

Init ==
    /\ \E ok \in OrigKinds, sk \in StoreKinds, ek \in ElseKinds :
          fs = InitialFs(ok, sk, ek)
    /\ last = NoCall
    /\ prev = NoCall
    /\ ncalls = 0
    /\ run = NoRun
    /\ moved = {}
    /\ nruns = 0
    /\ query = NoQuery
    /\ config = <<>>

\* the failure the environment was asked for did happen during the call
Fired(r) == \E i \in 1..Len(r.sys) : r.sys[i].inj

\* the effect of one call on the state: r is its Result
Called(op, from, to, ow, sym, flt, r) ==
    /\ flt = "none" \/ Fired(r)
    /\ fs' = r.fs
    /\ last' = Call(op, from, to, ow, sym, flt, r, fs)
    /\ prev' = last
    /\ ncalls' = ncalls + 1
    /\ UNCHANGED <<run, moved, nruns, query, config>>

\* one call of fs::move_then_symlink(Orig, Store)
CallMoveThenSymlink ==
    /\ ncalls < MaxCalls
    /\ \E flt \in Faults :
          Called("move_then_symlink", Orig, Store, <<>>, FALSE, flt,
                 move_then_symlink(fs, Orig, Store, flt))

\* one call of fs::restore(Store, Orig, overwrite, symlinks)
CallRestore ==
    /\ ncalls < MaxCalls
    /\ \E ow \in {<<>>, <<Join(TempDir, Rel)>>}, sym \in BOOLEAN, flt \in Faults :
          Called("restore", Store, Orig, ow, sym, flt,
                 restore(fs, Store, Orig, ow, sym, flt))

Next == CallMoveThenSymlink \/ CallRestore

Spec == Init /\ [][Next]_vars

(***************************************************************************)
(* Vocabulary of the properties.                                           *)
(***************************************************************************)
\* the tree rooted at the physical path p, keyed by the paths relative to p
Tree(f, p) ==
    [q \in {SubSeq(x, Len(p) + 1, Len(x)) : x \in Below(f, p)} |-> f[p \o q]]

\* nothing at all is at p, not even a dangling link
Absent(f, p) == ~Lstat(f, p).ok

IsLink(f, p) == Lstat(f, p).ok /\ Lstat(f, p).n.k = "link"

\* a file or a directory is at p itself (not a link)
IsRegular(f, p) == Lstat(f, p).ok /\ Lstat(f, p).n.k # "link"

\* p is a link whose canonical form is the path s
LinkedTo(f, p, s) ==
    IsLink(f, p) /\ Canonicalize(f, p).ok /\ Canonicalize(f, p).p = s

\* p is a link that resolves, but not to s
LinkedElsewhere(f, p, s) ==
    IsLink(f, p) /\ Canonicalize(f, p).ok /\ Canonicalize(f, p).p # s

\* p is a link that does not resolve
Dangling(f, p) == IsLink(f, p) /\ ~Canonicalize(f, p).ok

Links(f) == {p \in DOMAIN f : f[p].k = "link"}

IsMts(c) == c.op = "move_then_symlink"

IsRestore(c) == c.op = "restore"

Steps(c, op) == {i \in 1..Len(c.sys) : c.sys[i].op = op}

(***************************************************************************)
(* The commands of src/cmds.rs, run in the default layout: the root /home  *)
(* holds a file a, a directory c with a file, a directory r that is a git  *)
(* repository and an unrelated file e; the store /home/.dotty holds a, and *)
(* possibly a link x to it (the store is a git work tree: it holds what    *)
(* was cloned into it).  A run is a sequence of steps: the start (the      *)
(* arguments are flattened, the temp dir is made), then one step per leaf; *)
(* the step of the last leaf ends the run (add commits, restore drops the  *)
(* temp dir).  run is the state of the command that is running or ran      *)
(* last (plan is what the start found to do, queue what is left of it);    *)
(* moved is the set of paths add has moved into the store so far.          *)
(***************************************************************************)
RootA == <<"home", "a">>

RootC == <<"home", "c">>

RootR == <<"home", "r">>

Missing == <<"home", "m">>

\* a file that is not under the root
Outside == <<"tmp", "o">>

StoreA == Join(Repo, <<"a">>)

StoreX == Join(Repo, <<"x">>)

\* random_string(7) of fs.rs:112: a fresh name for each run
TempNames == <<"dotty-aaaaaaa", "dotty-bbbbbbb", "dotty-ccccccc", "dotty-ddddddd">>

TempDirOf(n) == <<"tmp", TempNames[n]>>

RootAKinds == {"absent", "file", "linked", "toElse"}

StoreAKinds == {"absent", "file", "alias"}

\* the directory c: empty, with the file a, or with l, a link to /home/e
RootCKinds == {"empty", "file", "link"}

\* the git repository: none, /home/r, or nested in the directory c
RootRKinds == {"absent", "repo", "nested"}

NestedR == Append(RootC, "r")

CmdsEntries ==
    << <<<<"home">>, Dir>>, <<Repo, Dir>>, <<Append(Repo, ".git"), Dir>>,
       <<Join(Repo, <<".git", "HEAD">>), File(9)>>,
       <<Append(Repo, ".gitmodules"), File(10)>>,
       <<RootC, Dir>>, <<<<"tmp">>, Dir>>, <<Else, File(3)>>,
       <<Outside, File(6)>> >>

InitialCmdsFs(ak, sk, ck, rk) ==
    MkFs(CmdsEntries
         \o (CASE ak = "file" -> <<<<RootA, File(1)>>>>
               [] ak = "linked" -> <<<<RootA, Link(StoreA)>>>>
               [] ak = "toElse" -> <<<<RootA, Link(Else)>>>>
               [] OTHER -> <<>>)
         \o (CASE sk = "file" -> <<<<StoreA, File(2)>>>>
               [] sk = "alias" -> <<<<StoreA, File(2)>>, <<StoreX, Link(StoreA)>>>>
               [] OTHER -> <<>>)
         \o (CASE ck = "file" -> <<<<Append(RootC, "a"), File(4)>>>>
               [] ck = "link" -> <<<<Append(RootC, "l"), Link(Else)>>>>
               [] OTHER -> <<>>)
         \o (CASE rk = "repo" ->
                     << <<RootR, Dir>>, <<Append(RootR, ".git"), Dir>>,
                        <<Append(RootR, "f"), File(5)>> >>
               [] rk = "nested" ->
                     << <<NestedR, Dir>>, <<Append(NestedR, ".git"), Dir>>,
                        <<Append(NestedR, "f"), File(5)>> >>
               [] OTHER -> <<>>))

InitCmds ==
    /\ \E ak \in RootAKinds, sk \in StoreAKinds, ck \in RootCKinds,
          rk \in RootRKinds :
          fs = InitialCmdsFs(ak, sk, ck, rk)
    /\ last = NoCall
    /\ prev = NoCall
    /\ ncalls = 0
    /\ run = NoRun
    /\ moved = {}
    /\ nruns = 0
    /\ query = NoQuery
    /\ config = <<>>

\* the paths a run of add is given
AddArgs ==
    {<<RootA>>, <<RootC>>, <<RootR, RootA>>, <<Missing, RootA>>,
     <<RootA, Outside>>, <<RootA, RootA>>}

\* no command is running
Idle == run.pc \in {"idle", "done"}

\* cmds.rs:27-31 add up to its loop: fl is what flatten_paths_to_add returns
AddStarted(paths, fl) ==
    /\ run' = [NoRun EXCEPT !.cmd = "add", !.args = paths, !.pre = fs,
                            !.premoved = moved, !.plan = fl.leaves,
                            !.queue = fl.leaves,
                            !.ok = fl.ok, !.err = fl.err,
                            !.pc = IF fl.ok /\ fl.leaves # <<>>
                                   THEN "leaves" ELSE "done"]
    /\ nruns' = nruns + 1
    /\ UNCHANGED <<fs, moved, last, prev, ncalls, query, config>>

AddStart ==
    /\ Idle
    /\ nruns < MaxRuns
    /\ \E paths \in AddArgs : AddStarted(paths, flatten_paths_to_add(fs, paths))

\* cmds.rs:33-46 what add does with the Result of move_to_dotty_repo
Report(leaf, r) ==
    [path |-> leaf.path, err |-> r.err,
     outcome |-> IF ~r.ok THEN "failed"
                 ELSE IF r.val THEN "added" ELSE "already added"]

\* cmds.rs:49-67 add after its loop: g is what the commit returns
AddEnded(to_commit, submodules, reports, g, gitflt) ==
    /\ gitflt = "none" \/ g.err = gitflt
    /\ run' = [run EXCEPT !.pc = "done", !.queue = <<>>,
                          !.to_commit = to_commit, !.submodules = submodules,
                          !.reports = reports, !.git = g.git, !.ok = g.ok,
                          !.err = g.err]

\* the loop of add ending at the first leaf that fails
remaining_unless_failed(queue, r) == IF r.ok THEN Tail(queue) ELSE <<>>

\* cmds.rs:31-47 the leaves the loop of add goes on with after a leaf,
\* whatever move_to_dotty_repo returned for it
remaining(queue, r) == Tail(queue)

\* a loop of add that stages and commits after every leaf
git_per_leaf(git, to_commit, submodules) ==
    git \o GitOps(to_commit, submodules)

\* cmds.rs:31-47 what a turn of the loop of add asks of the store's
\* repository: nothing, the requests come after the loop (cmds.rs:49-55)
git_in_loop(git, to_commit, submodules) == git

\* cmds.rs:31-55 add, one turn of its loop: r is what move_to_dotty_repo
\* returns for the leaf, rel the leaf's relative path, flt the failure of
\* the environment during the turn
AddedLeaf(leaf, r, rel, flt, gitflt) ==
    LET some == r.ok /\ r.val
        to_commit == IF some THEN Append(run.to_commit, rel) ELSE run.to_commit
        submodules == IF some /\ leaf.type = "GitRepo"
                      THEN Append(run.submodules, rel) ELSE run.submodules
    IN /\ flt = "none" \/ Fired(r)
       /\ fs' = r.fs
       /\ moved' = IF some THEN moved \cup {leaf.path} ELSE moved
       /\ IF remaining(run.queue, r) # <<>>
          THEN /\ gitflt = "none"
               /\ run' = [run EXCEPT !.queue = remaining(@, r),
                                     !.to_commit = to_commit,
                                     !.submodules = submodules,
                                     !.git = git_in_loop(@, to_commit, submodules),
                                     !.reports = Append(@, Report(leaf, r))]
          ELSE AddEnded(to_commit, submodules,
                        Append(run.reports, Report(leaf, r)),
                        commit_moved(r.fs, Repo, to_commit, submodules, gitflt),
                        gitflt)
       /\ UNCHANGED <<nruns, last, prev, ncalls, query, config>>

AddLeaf ==
    /\ run.cmd = "add"
    /\ run.pc = "leaves"
    /\ \E flt \in Faults, gitflt \in GitFaults :
          AddedLeaf(Head(run.queue),
                    move_to_dotty_repo(fs, Repo, Root, Head(run.queue).path, flt),
                    relative_from_root(Root, Head(run.queue).path).rel,
                    flt, gitflt)

\* cmds.rs:70-88 restore up to its loop: p is what restore_begin returns;
\* with nothing to restore or an error the run ends and the temp dir drops
RestoreStarted(symlinks, p) ==
    /\ fs' = IF p.ok /\ p.queue # <<>> THEN p.fs ELSE drop_temp_dir(p.fs, p.tmp)
    /\ run' = [NoRun EXCEPT !.cmd = "restore", !.sym = symlinks, !.pre = fs,
                            !.premoved = moved, !.tmp = p.tmp,
                            !.plan = p.queue, !.queue = p.queue,
                            !.ok = p.ok, !.err = p.err,
                            !.pc = IF p.ok /\ p.queue # <<>>
                                   THEN "entries" ELSE "done"]
    /\ nruns' = nruns + 1
    /\ UNCHANGED <<moved, last, prev, ncalls, query, config>>

RestoreStart ==
    /\ Idle
    /\ nruns < MaxRuns
    /\ \E symlinks \in BOOLEAN, overwrite \in BOOLEAN :
          RestoreStarted(symlinks,
                         restore_begin(fs, Repo, overwrite, TempDirOf(nruns + 1)))

\* what fs::restore moved out of the way into the temp dir, if anything
Displaced(displaced, rel, to, r) ==
    IF \E i \in 1..Len(r.sys) : r.sys[i].op = "rename" /\ r.sys[i].ok
    THEN Append(displaced, [rel |-> rel, replaced |-> r.ok,
                            tree |-> Tree(fs, Phys(fs, to).p)])
    ELSE displaced

\* cmds.rs:90-107 restore, one turn of its loop: r is what fs::restore (or
\* relative_from_root) returns; the ? ends the run at the first error
RestoredEntry(rel, r, flt) ==
    /\ flt = "none" \/ Fired(r)
    /\ fs' = IF r.ok /\ Tail(run.queue) # <<>> THEN r.fs
             ELSE drop_temp_dir(r.fs, run.tmp)
    /\ run' = [run EXCEPT !.queue = IF r.ok THEN Tail(@) ELSE @,
                          !.reports = Append(@, [path |-> Head(run.queue),
                                                 err |-> r.err,
                                                 outcome |-> IF r.ok THEN "restored"
                                                             ELSE "failed"]),
                          !.displaced = Displaced(@, rel, Join(Root, rel), r),
                          !.inj = @ \/ Fired(r),
                          !.ok = r.ok, !.err = r.err,
                          !.pc = IF r.ok /\ Tail(run.queue) # <<>>
                                 THEN "entries" ELSE "done"]
    /\ UNCHANGED <<moved, nruns, last, prev, ncalls, query, config>>

RestoreEntry ==
    /\ run.cmd = "restore"
    /\ run.pc = "entries"
    /\ \E flt \in Faults :
          RestoredEntry(relative_from_root(Repo, Head(run.queue)).rel,
                        restore_entry(fs, Repo, Root, Head(run.queue), run.tmp,
                                      run.sym, flt),
                        flt)

NextCmds == AddStart \/ AddLeaf \/ RestoreStart \/ RestoreEntry

SpecCmds == InitCmds /\ [][NextCmds]_vars

(***************************************************************************)
(* C1: when a restore run with overwrite has ended, every regular file or  *)
(* directory that was at an original location when the run began and that  *)
(* the run replaced is in the run's temp dir, at the relative path it had  *)
(* under the root, with the content it had.                                *)
(***************************************************************************)
C1_DisplacedKeptInScratch ==
    (run.cmd = "restore" /\ run.pc = "done" /\ run.tmp # <<>>)
    => \A i \in 1..Len(run.displaced) :
          (/\ run.displaced[i].replaced
           /\ IsRegular(run.pre, Join(Root, run.displaced[i].rel))
           /\ run.displaced[i].tree
                 = Tree(run.pre, Phys(run.pre, Join(Root, run.displaced[i].rel)).p))
          => /\ IsRegular(fs, Join(run.tmp[1], run.displaced[i].rel))
             /\ Tree(fs, Phys(fs, Join(run.tmp[1], run.displaced[i].rel)).p)
                   = run.displaced[i].tree

(***************************************************************************)
(* C2: when the store target exists and the original is not a link that    *)
(* resolves to it, move_then_symlink fails with the conflict error and     *)
(* changes nothing, neither at the original nor in the store.              *)
(***************************************************************************)
C2_ConflictChangesNothing ==
    (IsMts(last) /\ Exists(last.pre, last.to)
        /\ ~LinkedTo(last.pre, last.from, last.to))
    => (~last.ok /\ last.err = "already exists in repo" /\ fs = last.pre
        /\ last.sys = <<>>)

C2_Witness ==
    /\ IsMts(last) /\ Exists(last.pre, last.to)
    /\ IsRegular(last.pre, last.from)
    /\ ContentAt(last.pre, last.from) # ContentAt(last.pre, last.to)
    /\ ~last.ok

(***************************************************************************)
(* C3: for an original that exists and a store target that is absent, two  *)
(* calls of move_then_symlink in a row with the same arguments (and no     *)
(* failure of the environment) return Ok(true) and then Ok(false), and the *)
(* second call changes nothing.                                            *)
(***************************************************************************)
C3_AddTwiceIsMovedThenAlreadyLinked ==
    (IsMts(prev) /\ IsMts(last) /\ prev.from = last.from /\ prev.to = last.to
        /\ prev.flt = "none" /\ last.flt = "none"
        /\ Exists(prev.pre, prev.from) /\ Absent(prev.pre, prev.to))
    => (prev.ok /\ prev.val /\ last.ok /\ ~last.val /\ fs = last.pre)

(***************************************************************************)
(* C4: a regular file with content C, moved by move_then_symlink and then  *)
(* restored: as a link the original is a link leading to C; as a copy the  *)
(* original is a regular file with content C and the store still holds C;  *)
(* with or without overwrite.                                              *)
(***************************************************************************)
C4_RoundTrip ==
    (IsMts(prev) /\ IsRestore(last) /\ prev.ok /\ prev.val
        /\ last.from = prev.to /\ last.to = prev.from /\ last.flt = "none"
        /\ IsRegular(prev.pre, prev.from) /\ IsFile(prev.pre, prev.from))
    => LET C == ContentAt(prev.pre, prev.from) IN
       /\ last.ok
       /\ ContentAt(fs, last.from) = C
       /\ ContentAt(fs, last.to) = C
       /\ last.sym => IsLink(fs, last.to)
       /\ ~last.sym => IsRegular(fs, last.to) /\ IsRegular(fs, last.from)

C4_Witness ==
    /\ IsMts(prev) /\ IsRestore(last) /\ prev.val /\ last.ok
    /\ ~last.sym /\ last.ow = <<>>
    /\ IsRegular(fs, last.to) /\ ContentAt(fs, last.to) = 1

(***************************************************************************)
(* C5: restore without overwrite, when something other than a link to the  *)
(* store path is at the original, fails (for a file or directory with "not *)
(* overwriting existing file", for a link resolving elsewhere with "not    *)
(* overwriting symlink") whatever the mode, and changes nothing.           *)
(***************************************************************************)
C5_NoOverwriteRefuses ==
    (IsRestore(last) /\ last.ow = <<>> /\ ~Absent(last.pre, last.to)
        /\ ~LinkedTo(last.pre, last.to, last.from))
    => /\ ~last.ok /\ fs = last.pre /\ last.sys = <<>>
       /\ (Exists(last.pre, last.from) /\ IsRegular(last.pre, last.to))
             => last.err = "not overwriting existing file"
       /\ (Exists(last.pre, last.from)
             /\ LinkedElsewhere(last.pre, last.to, last.from))
             => last.err = "not overwriting symlink"

C5_Witness ==
    /\ IsRestore(last) /\ last.ow = <<>> /\ ~last.sym
    /\ LinkedElsewhere(last.pre, last.to, last.from)
    /\ last.err = "not overwriting symlink"

(***************************************************************************)
(* C6: move_then_symlink links only after it has renamed; when the link    *)
(* step fails after the rename, the call fails, the content is at the      *)
(* store target as it was at the original, nothing is at the original, and *)
(* the rename is not undone (the failed link is the last step taken).      *)
(***************************************************************************)
C6_LinkFailureLeavesMove ==
    IsMts(last) =>
       /\ \A i \in Steps(last, "symlink") :
             i = 2 /\ last.sys[1].op = "rename" /\ last.sys[1].ok
       /\ \A i \in Steps(last, "symlink") : ~last.sys[i].ok =>
             /\ ~last.ok
             /\ Len(last.sys) = 2
             /\ Tree(fs, Phys(fs, last.to).p) = Tree(last.pre, Phys(last.pre, last.from).p)
             /\ Phys(fs, last.to).p \in DOMAIN fs
             /\ Absent(fs, last.from)

C6_Witness ==
    /\ IsMts(last) /\ Len(last.sys) = 2 /\ ~last.sys[2].ok
    /\ ContentAt(fs, last.to) = 1 /\ Absent(fs, last.from)

(***************************************************************************)
(* C7: when the rename step of move_then_symlink fails, the call fails,    *)
(* the original is as it was, the store target does not exist and no link  *)
(* is created (nor attempted).                                             *)
(***************************************************************************)
C7_MoveFailureLeavesOriginal ==
    (IsMts(last) /\ \E i \in Steps(last, "rename") : ~last.sys[i].ok)
    => /\ ~last.ok /\ last.err = "failed to move"
       /\ Tree(fs, Phys(fs, last.from).p) = Tree(last.pre, Phys(last.pre, last.from).p)
       /\ ~Exists(fs, last.to)
       /\ Steps(last, "symlink") = {}
       /\ Links(fs) = Links(last.pre)

C7_Witness ==
    /\ IsMts(last) /\ ~last.ok /\ last.err = "failed to move"
    /\ ContentAt(fs, last.from) = 1 /\ IsRegular(fs, last.from)

(***************************************************************************)
(* C8: a run of add whose paths were all moved into the store by an        *)
(* earlier add, and are links to their store targets when the run begins,  *)
(* is a no-op: every leaf is reported as already added, nothing is staged  *)
(* or committed, and the file system is as it was before the run.          *)
(***************************************************************************)
C8_AddAgainIsNoOp ==
    (/\ run.cmd = "add" /\ run.pc = "done" /\ run.args # <<>>
     /\ \A i \in 1..Len(run.args) :
           /\ run.args[i] \in run.premoved
           /\ LinkedTo(run.pre, run.args[i],
                       Join(Repo, relative_from_root(Root, run.args[i]).rel)))
    => /\ run.ok
       /\ run.reports # <<>>
       /\ \A i \in 1..Len(run.reports) : run.reports[i].outcome = "already added"
       /\ run.to_commit = <<>>
       /\ run.git = <<>>
       /\ fs = run.pre

(***************************************************************************)
(* C9: in restore a dangling link at the original is handled like a link   *)
(* resolving elsewhere: with overwrite it is removed and the link or copy  *)
(* is made, without overwrite the call fails with "not overwriting         *)
(* symlink".                                                               *)
(***************************************************************************)
C9_DanglingLikeElsewhere ==
    (IsRestore(last) /\ last.flt = "none" /\ Exists(last.pre, last.from)
        /\ Dangling(last.pre, last.to))
    => /\ last.ow # <<>> =>
             /\ last.ok
             /\ last.sym => LinkedTo(fs, last.to, last.from)
             /\ ~last.sym => IsRegular(fs, last.to)
       /\ last.ow = <<>> => (~last.ok /\ last.err = "not overwriting symlink")

C11_StaleLinkRemovedThenCreated ==
    (IsRestore(last) /\ last.ow # <<>> /\ Exists(last.pre, last.from)
        /\ LinkedElsewhere(last.pre, last.to, last.from))
    => /\ Steps(last, "rename") = {}
       /\ Tree(fs, Canonicalize(last.pre, last.to).p)
             = Tree(last.pre, Canonicalize(last.pre, last.to).p)
       /\ Tree(fs, TempDir) = Tree(last.pre, TempDir)
       /\ last.flt = "none" =>
             /\ last.ok
             /\ Len(last.sys) = 2
             /\ last.sys[1].op = "remove" /\ last.sys[1].a = last.to
             /\ last.sys[2].op = (IF last.sym THEN "symlink" ELSE "copy")
             /\ last.sym => Lstat(fs, last.to).n = Link(last.from)
             /\ ~last.sym =>
                   /\ IsRegular(fs, last.to)
                   /\ Tree(fs, Phys(fs, last.to).p)
                         = Tree(last.pre, Canonicalize(last.pre, last.from).p)

C11_Witness ==
    /\ IsRestore(last) /\ last.ow # <<>> /\ last.flt = "none" /\ ~last.sym
    /\ LinkedElsewhere(last.pre, last.to, last.from)
    /\ IsRegular(fs, last.to) /\ ContentAt(fs, last.to) = 2
    /\ ContentAt(fs, Else) = 3

(***************************************************************************)
(* C12: when the store path does not exist, restore fails with the "does   *)
(* not exist" error whatever is at the original, whatever the mode and     *)
(* overwrite, and takes no step: the original, the temp dir and everything *)
(* else are as they were.                                                  *)
(***************************************************************************)
C12_MissingStoreChangesNothing ==
    (IsRestore(last) /\ ~Exists(last.pre, last.from))
    => (~last.ok /\ last.err = "does not exist" /\ last.sys = <<>>
        /\ fs = last.pre)

C12_Witness ==
    /\ IsRestore(last) /\ Absent(last.pre, last.from) /\ last.ow # <<>>
    /\ IsRegular(last.pre, last.to) /\ last.sym
    /\ last.err = "does not exist"
    /\ ContentAt(fs, last.to) = 1

(***************************************************************************)
(* C13: when a restore run has ended, every entry it set out to restore    *)
(* has been processed, also the entries after one that failed.             *)
(***************************************************************************)
C13_RestoreContinuesPastFailure ==
    (run.cmd = "restore" /\ run.pc = "done")
    => Len(run.reports) = Len(run.plan)

(***************************************************************************)
(* C14: in a run of add every leaf is handed to move_to_dotty_repo in its  *)
(* turn, whatever happened to the leaves before it: while the run lasts    *)
(* the leaves reported and the leaves left are the leaves found, in order, *)
(* and when it has ended none is left.                                     *)
(***************************************************************************)
C14_AddContinuesPastFailure ==
    run.cmd = "add" =>
       /\ Len(run.reports) + Len(run.queue) = Len(run.plan)
       /\ \A i \in 1..Len(run.reports) : run.reports[i].path = run.plan[i].path
       /\ \A i \in 1..Len(run.queue) :
             run.queue[i] = run.plan[Len(run.reports) + i]
       /\ run.pc = "done" => run.queue = <<>>

C14_Witness ==
    /\ run.cmd = "add" /\ run.pc = "done" /\ Len(run.reports) = 2
    /\ run.reports[1].outcome = "failed"
    /\ run.reports[1].err = "must be a child of"
    /\ run.reports[2].outcome = "added"
    /\ LinkedTo(fs, RootA, StoreA)
    /\ run.to_commit = <<<<"a">>>>

(***************************************************************************)
(* C15: when a restore run that created a temp dir has ended, with or      *)
(* without an error, the temp dir is there if and only if something is in  *)
(* it; in particular it is there when the run moved something into it.     *)
(***************************************************************************)
C15_TempDirDroppedIffEmpty ==
    (run.cmd = "restore" /\ run.pc = "done" /\ run.tmp # <<>>)
    => /\ run.tmp[1] \in DOMAIN fs <=> Children(fs, run.tmp[1]) # {}
       /\ run.displaced # <<>> => run.tmp[1] \in DOMAIN fs

C15_Witness ==
    /\ run.cmd = "restore" /\ run.pc = "done" /\ run.tmp # <<>>
    /\ ~run.ok /\ run.reports # <<>>
    /\ run.tmp[1] \notin DOMAIN fs

(***************************************************************************)
(* C16: when flatten_paths_to_add succeeds, every git repository that lies *)
(* in the tree of a requested path (a directory holding .git, reached      *)
(* through directories that are not repositories themselves) is exactly    *)
(* one leaf of the result, of type GitRepo, and no path beneath it is a    *)
(* leaf.                                                                   *)
(***************************************************************************)
InRequestedTree(f, args, p) ==
    \E i \in 1..Len(args) :
       /\ Canonicalize(f, args[i]).ok
       /\ IsPrefix(Canonicalize(f, args[i]).p, p)
       /\ \A n \in Len(Canonicalize(f, args[i]).p)..(Len(p) - 1) :
             /\ f[SubSeq(p, 1, n)].k = "dir"
             /\ Append(SubSeq(p, 1, n), ".git") \notin DOMAIN f

C16_RepoIsOneLeaf ==
    (run.cmd = "add" /\ (run.ok \/ run.plan # <<>>))
    => \A p \in DOMAIN run.pre :
          (/\ run.pre[p].k = "dir"
           /\ Append(p, ".git") \in DOMAIN run.pre
           /\ InRequestedTree(run.pre, run.args, p))
          => /\ Cardinality({j \in 1..Len(run.plan) : run.plan[j].path = p}) = 1
             /\ \A j \in 1..Len(run.plan) :
                   /\ run.plan[j].path = p => run.plan[j].type = "GitRepo"
                   /\ IsPrefix(p, run.plan[j].path) => run.plan[j].path = p

C16_Witness ==
    /\ run.cmd = "add" /\ run.pc = "leaves" /\ run.args = <<RootC>>
    /\ Len(run.plan) = 2
    /\ \E j \in 1..2 : run.plan[j] = Leaf(NestedR, "GitRepo")
    /\ \E j \in 1..2 : run.plan[j] = Leaf(Append(RootC, "a"), "File")
    /\ Append(NestedR, "f") \in DOMAIN fs

(***************************************************************************)
(* C17: no leaf appears more than once in what flatten_paths_to_add        *)
(* returns for the paths given to add, also when a path is given twice.    *)
(***************************************************************************)
C17_NoLeafTwice ==
    run.cmd = "add" =>
       \A i, j \in 1..Len(run.plan) :
          i # j => run.plan[i].path # run.plan[j].path

(***************************************************************************)
(* C18: when a path given to add does not exist, flatten_paths_to_add      *)
(* fails with the "does not exist" error and returns no leaf, and the run  *)
(* of add ends there: nothing is moved, linked, staged or committed, also  *)
(* for the given paths that do exist.                                      *)
(***************************************************************************)
C18_MissingPathAbortsAdd ==
    (run.cmd = "add"
        /\ \E i \in 1..Len(run.args) : ~Exists(run.pre, run.args[i]))
    => /\ run.pc = "done" /\ ~run.ok /\ run.err = "does not exist"
       /\ run.plan = <<>> /\ run.reports = <<>>
       /\ run.to_commit = <<>> /\ run.git = <<>>
       /\ fs = run.pre /\ moved = run.premoved

C18_Witness ==
    /\ run.cmd = "add" /\ run.args = <<Missing, RootA>>
    /\ run.err = "does not exist"
    /\ IsRegular(fs, RootA) /\ Absent(fs, StoreA)

(***************************************************************************)
(* The functions of src/utils/path.rs on their own: one question is asked, *)
(* with arguments drawn from the paths of at most MaxComps components;     *)
(* query is the question and its answer.                                   *)
(***************************************************************************)
Comps == {"home", "c", "m", "l"}

\* the sequences over S of at most n elements
SeqsUpTo(S, n) == UNION {[1..k -> S] : k \in 0..n}

PathsAsked == SeqsUpTo(Comps, MaxComps)

\* the working directories asked from
Cwds == {<<"home">>, <<"home", "c">>}

\* /home with the file a and the directory c, and /l, a link to /home/c
PathFs ==
    Put(InitialCmdsFs("file", "absent", "file", "absent"),
        <<"l">>, Link(<<"home", "c">>))

InitPath ==
    /\ fs = PathFs
    /\ last = NoCall
    /\ prev = NoCall
    /\ ncalls = 0
    /\ run = NoRun
    /\ moved = {}
    /\ nruns = 0
    /\ query = NoQuery
    /\ config = <<>>

\* r is what relative_from_root(root, path) returns
AskedRelative(root, path, r) ==
    /\ query' = [NoQuery EXCEPT !.fn = "relative_from_root", !.root = root,
                                !.path = path, !.ok = r.ok, !.err = r.err,
                                !.val = r.rel]
    /\ UNCHANGED <<fs, last, prev, ncalls, run, moved, nruns, config>>

AskRelativeFromRoot ==
    /\ query.fn = "none"
    /\ \E root \in PathsAsked, path \in PathsAsked :
          AskedRelative(root, path, relative_from_root(root, path))

\* r is what canonicalize(path) returns in the working directory cwd
AskedCanonicalize(cwd, path, r) ==
    /\ query' = [NoQuery EXCEPT !.fn = "canonicalize", !.cwd = cwd,
                                !.arg = path, !.ok = r.ok, !.err = r.e,
                                !.val = r.p]
    /\ UNCHANGED <<fs, last, prev, ncalls, run, moved, nruns, config>>

AskCanonicalize ==
    /\ query.fn = "none"
    /\ \E cwd \in Cwds, abs \in BOOLEAN, comps \in PathsAsked :
          AskedCanonicalize(cwd, [abs |-> abs, comps |-> comps],
                            canonicalize(fs, cwd, [abs |-> abs, comps |-> comps]))

\* the components of the paths common_base_path is asked about
BaseComps == {"a", "c"}

\* base is what common_base_path(paths) returns
AskedCommonBasePath(paths, base) ==
    /\ query' = [NoQuery EXCEPT !.fn = "common_base_path", !.paths = paths,
                                !.base = base]
    /\ UNCHANGED <<fs, last, prev, ncalls, run, moved, nruns, config>>

\* the paths of one list are all absolute or all relative (to_commit of
\* cmds.rs:188 holds relative paths only)
AskCommonBasePath ==
    /\ query.fn = "none"
    /\ \E abs \in BOOLEAN, l \in SeqsUpTo(SeqsUpTo(BaseComps, MaxComps), MaxPaths) :
          AskedCommonBasePath(
              [i \in 1..Len(l) |-> [abs |-> abs, comps |-> l[i]]],
              common_base_path([i \in 1..Len(l) |-> [abs |-> abs, comps |-> l[i]]]))

NextPath == AskRelativeFromRoot \/ AskCanonicalize \/ AskCommonBasePath

SpecPath == InitPath /\ [][NextPath]_vars

(***************************************************************************)
(* C19: relative_from_root(root, path) fails with "must be a child of"     *)
(* when root is not a component-wise prefix of path, with "cannot add      *)
(* repository path" when path is root, and otherwise returns a relative    *)
(* path that is not empty and that, joined to root, is path.               *)
(***************************************************************************)
C19_RelativeFromRoot ==
    query.fn = "relative_from_root" =>
       /\ ~IsPrefix(query.root, query.path)
             => (~query.ok /\ query.err = "must be a child of")
       /\ query.root = query.path
             => (~query.ok /\ query.err = "cannot add repository path")
       /\ (IsPrefix(query.root, query.path) /\ query.root # query.path)
             => (query.ok /\ query.val # <<>>
                 /\ Join(query.root, query.val) = query.path)
       /\ query.ok => IsPrefix(query.root, Join(query.root, query.val))

C19_Witness ==
    /\ query.fn = "relative_from_root" /\ query.ok
    /\ query.root = <<"home">> /\ query.val = <<"c">>

(***************************************************************************)
(* C20: for a path, absolute or relative, that does not exist, canonicalize*)
(* succeeds and returns the canonical form of the path's deepest existing  *)
(* ancestor followed by the components after it, each once and in order.   *)
(***************************************************************************)
\* the number of leading components of the absolute path p that exist
DeepestExisting(f, p) ==
    CHOOSE k \in 0..Len(p) :
       /\ Exists(f, SubSeq(p, 1, k))
       /\ \A j \in (k + 1)..Len(p) : ~Exists(f, SubSeq(p, 1, j))

CanonicalOfMissing(f, p) ==
    Canonicalize(f, SubSeq(p, 1, DeepestExisting(f, p))).p
       \o SubSeq(p, DeepestExisting(f, p) + 1, Len(p))

C20_CanonicalizeMissing ==
    (query.fn = "canonicalize" /\ query.arg.comps # <<>>
        /\ ~path_exists(fs, query.cwd, query.arg))
    => /\ query.ok
       /\ query.val = CanonicalOfMissing(fs, Resolved(query.cwd, query.arg))

(***************************************************************************)
(* C21: common_base_path returns the longest sequence of leading           *)
(* components that all the paths of the list begin with: the empty path    *)
(* for the empty list and for paths that share no leading component.       *)
(***************************************************************************)
\* the sequences of components every path of the list begins with
SharedBy(paths) ==
    {c \in SeqsUpTo(BaseComps \cup {"/"}, MaxComps + 1) :
        \A i \in 1..Len(paths) : IsPrefix(c, components(paths[i]))}

C21_CommonBasePath ==
    query.fn = "common_base_path" =>
       /\ query.paths = <<>> => components(query.base) = <<>>
       /\ query.paths # <<>> =>
             /\ components(query.base) \in SharedBy(query.paths)
             /\ \A c \in SharedBy(query.paths) :
                   Len(c) <= Len(components(query.base))

(***************************************************************************)
(* C22: in a run of add the store's repository is asked to unstage, add    *)
(* submodules, stage and commit only after the last leaf has been moved    *)
(* and linked: while leaves are left nothing has been asked of it, and no  *)
(* step of the run changes the file system once something has been.        *)
(***************************************************************************)
C22_GitAfterLastLeaf ==
    (run.cmd = "add" /\ run.git # <<>>)
    => /\ run.pc = "done" /\ run.queue = <<>>
       /\ Len(run.reports) = Len(run.plan)
       /\ run.to_commit # <<>>

C22_Witness ==
    /\ run.cmd = "add" /\ run.pc = "done" /\ Len(run.reports) = 2
    /\ \A i \in 1..2 : run.reports[i].outcome = "added"
    /\ Len(run.git) = 4 /\ \A i \in 1..4 : run.git[i].ok
    /\ run.git[1].op = "unstage_all" /\ run.git[4].op = "commit"

(***************************************************************************)
(* src/main.rs with src/config.rs: the add and restore commands that keep  *)
(* the manifest dotty.yaml.  config is what the file holds (the entries,   *)
(* in order); run.config is the Config a running add has read and appends  *)
(* to.  add takes the requested paths as they are (a directory is moved    *)
(* whole), restore takes the entries of the manifest.                      *)
(***************************************************************************)
\* config.rs:13,33 repo.join(CONFIG_FILE)
ConfigFile == Append(Repo, "dotty.yaml")

\* config.rs:32-61 Config::read: File::open must succeed
config_read(f, entries) ==
    IF IsFile(f, ConfigFile) THEN [ok |-> TRUE, err |-> "", entries |-> entries]
    ELSE [ok |-> FALSE, err |-> "failed to open config file", entries |-> <<>>]

\* a Config::append that forgets the entries it read
config_append_fresh(entries, entry) == <<entry>>

\* config.rs:63-72 Config::append
config_append(entries, entry) == Append(entries, entry)

\* main.rs:220-232 move_to_dotty_repo once the path is canonical; the bool
\* of move_then_symlink is dropped, every Ok is Ok(relative_path)
main_move_from(f, from, repo, root, flt) ==
    IF ~from.ok THEN Res(FALSE, FALSE, "failed to get the canonical path", f, <<>>)
    ELSE IF ~Exists(f, from.p) THEN Res(FALSE, FALSE, "does not exist", f, <<>>)
    ELSE move_to_repo_at(f, relative_from_root(root, from.p), repo, from.p, flt)

\* main.rs:218 move_to_dotty_repo
main_move_to_dotty_repo(f, repo, root, path, flt) ==
    main_move_from(f, canonicalize(f, Cwd, AbsPath(path)), repo, root, flt)

\* the relative path main.rs:223 computes for the requested path
main_relative_path(f, root, from) ==
    IF from.ok THEN relative_from_root(root, from.p).rel ELSE <<>>

\* what can fail after the loop of add: the write of the manifest and the
\* requests to git
MainFaults == {"none", "write", "stage_path", "commit"}

\* main.rs:198-203 the mutations add asks for, in order
MainGitOps(to_commit) ==
    << GitOp("unstage_all", <<>>), GitOp("stage_path", <<<<"dotty.yaml">>>>),
       GitOp("add_submodules", to_commit), GitOp("stage_all_paths", to_commit),
       GitOp("commit", to_commit) >>

\* git.rs:181-183 add_submodules opens every path it is given as a
\* repository (from the working directory): the steps that fail by
\* themselves
NotSubmodules(f, ops) ==
    {i \in 1..Len(ops) :
        /\ ops[i].op = "add_submodules"
        /\ \E j \in 1..Len(ops[i].paths) :
              ~check_open(f, Join(Cwd, ops[i].paths[j]))}

\* the first step that fails, if any
FirstOf(bad) == {k \in bad : \A j \in bad : k <= j}

\* main.rs:194-203 add after its loop, once the manifest is written
main_commit(f, repo, to_commit, mflt) ==
    IF ~check_open(f, repo)
    THEN [ok |-> FALSE, err |-> "failed to open git repository", git |-> <<>>]
    ELSE GitRun(MainGitOps(to_commit),
                FirstOf(GitFails(MainGitOps(to_commit), mflt)
                           \cup NotSubmodules(f, MainGitOps(to_commit))))

\* main.rs:194-195 config.write()?: File::create fails or the entries are
\* in the file
config_written(disk, entries, mflt) ==
    IF mflt = "write"
    THEN [ok |-> FALSE, err |-> "failed to open config file for write",
          entries |-> disk]
    ELSE [ok |-> TRUE, err |-> "", entries |-> entries]

\* main.rs:194-215 add after its loop: w is what config.write returns
main_end(f, repo, to_commit, w, mflt) ==
    IF to_commit = <<>> THEN [ok |-> TRUE, err |-> "", git |-> <<>>]
    ELSE IF ~w.ok THEN [ok |-> FALSE, err |-> w.err, git |-> <<>>]
    ELSE main_commit(f, repo, to_commit, mflt)

\* main.rs:254-259 restore up to its loop: the temp dir, then Config::read
main_restore_read(t, c) ==
    Plan(t.ok /\ c.ok, IF ~t.ok THEN t.err ELSE c.err, t.fs, t.tmp,
         IF t.ok /\ c.ok THEN c.entries ELSE <<>>)

main_restore_begin(f, overwrite, temp_dir, entries) ==
    main_restore_read(IF overwrite THEN create_overwrite_temp_dir(f, temp_dir)
                      ELSE [ok |-> TRUE, err |-> "", fs |-> f, tmp |-> <<>>],
                      config_read(f, entries))

\* main.rs:260-274 restore, one turn of its loop
main_restore_entry(f, repo, root, entry, tmp, symlinks, flt) ==
    restore(f, Join(repo, entry), Join(root, entry),
            IF tmp = <<>> THEN <<>> ELSE <<Join(tmp[1], entry)>>, symlinks, flt)

(***************************************************************************)
(* The commands of src/main.rs, run in the layout of the commands of       *)
(* src/cmds.rs, with the manifest in the store and the git repository      *)
(* /home/r.  The directory c is a directory with a file, or a link to the  *)
(* directory c of the store (a directory that was added whole).            *)
(***************************************************************************)
StoreC == Join(Repo, <<"c">>)

MainCKinds == {"file", "stored", "linked"}

\* the manifests the store starts with
Manifests == {<<>>, <<<<"a">>>>, <<<<"a">>, <<"a">>>>, <<<<"c", "a">>>>}

WithStoreC(f) == Put(Put(f, StoreC, Dir), Append(StoreC, "a"), File(7))

InitialMainFs(ak, sk, ck) ==
    Put(CASE ck = "stored" -> WithStoreC(InitialCmdsFs(ak, sk, "empty", "repo"))
          [] ck = "linked" ->
                Put(WithStoreC(InitialCmdsFs(ak, sk, "empty", "repo")),
                    RootC, Link(StoreC))
          [] OTHER -> InitialCmdsFs(ak, sk, "file", "repo"),
        ConfigFile, File(8))

InitMain ==
    /\ \E ak \in {"absent", "file", "linked"}, sk \in {"absent", "file"},
          ck \in MainCKinds :
          fs = InitialMainFs(ak, sk, ck)
    /\ config \in Manifests
    /\ last = NoCall
    /\ prev = NoCall
    /\ ncalls = 0
    /\ run = NoRun
    /\ moved = {}
    /\ nruns = 0
    /\ query = NoQuery

\* the paths a run of add is given
MainAddArgs ==
    {<<RootA>>, <<RootC>>, <<RootR>>, <<Missing, RootA>>}

\* main.rs:176-178 add up to its loop: c is what Config::read returns
MainAddStarted(paths, c) ==
    /\ run' = [NoRun EXCEPT !.cmd = "add", !.args = paths, !.pre = fs,
                            !.premoved = moved, !.plan = paths,
                            !.queue = paths, !.config = c.entries,
                            !.ok = c.ok, !.err = c.err,
                            !.pc = IF c.ok THEN "paths" ELSE "done"]
    /\ nruns' = nruns + 1
    /\ UNCHANGED <<fs, moved, last, prev, ncalls, query, config>>

MainAddStart ==
    /\ Idle
    /\ nruns < MaxRuns
    /\ \E paths \in MainAddArgs : MainAddStarted(paths, config_read(fs, config))

\* main.rs:194-215 add after its loop: w is what config.write returns and
\* g what the whole block returns
MainAddEnded(to_commit, entries, reports, w, g, mflt) ==
    /\ mflt = "none" \/ g.err = mflt
          \/ (mflt = "write" /\ to_commit # <<>>)
    /\ config' = IF to_commit # <<>> THEN w.entries ELSE config
    /\ run' = [run EXCEPT !.pc = "done", !.queue = <<>>,
                          !.to_commit = to_commit, !.config = entries,
                          !.reports = reports, !.git = g.git, !.ok = g.ok,
                          !.err = g.err, !.mflt = mflt]

\* main.rs:179-215 add, one turn of its loop: r is what move_to_dotty_repo
\* returns for the path and rel the path's relative path
MainAddedPath(path, r, rel, flt, mflt) ==
    LET to_commit == IF r.ok THEN Append(run.to_commit, rel) ELSE run.to_commit
        entries == IF r.ok THEN config_append(run.config, rel) ELSE run.config
    IN /\ flt = "none" \/ Fired(r)
       /\ fs' = r.fs
       /\ moved' = IF r.ok THEN moved \cup {path} ELSE moved
       /\ IF Tail(run.queue) # <<>>
          THEN /\ mflt = "none"
               /\ run' = [run EXCEPT !.queue = Tail(@),
                                     !.to_commit = to_commit,
                                     !.config = entries,
                                     !.inj = @ \/ Fired(r),
                                     !.reports = Append(@, Report(Leaf(path, "File"), r))]
               /\ UNCHANGED config
          ELSE MainAddEnded(to_commit, entries,
                            Append(run.reports, Report(Leaf(path, "File"), r)),
                            config_written(config, entries, mflt),
                            main_end(r.fs, Repo, to_commit,
                                     config_written(config, entries, mflt), mflt),
                            mflt)
       /\ UNCHANGED <<nruns, last, prev, ncalls, query>>

MainAddPath ==
    /\ run.cmd = "add"
    /\ run.pc = "paths"
    /\ \E flt \in Faults, mflt \in MainFaults :
          MainAddedPath(Head(run.queue),
                        main_move_to_dotty_repo(fs, Repo, Root, Head(run.queue), flt),
                        main_relative_path(fs, Root,
                                           canonicalize(fs, Cwd, AbsPath(Head(run.queue)))),
                        flt, mflt)

MainRestoreStart ==
    /\ Idle
    /\ nruns < MaxRuns
    /\ \E symlinks \in BOOLEAN, overwrite \in BOOLEAN :
          RestoreStarted(symlinks,
                         main_restore_begin(fs, overwrite, TempDirOf(nruns + 1),
                                            config))

MainRestoreEntry ==
    /\ run.cmd = "restore"
    /\ run.pc = "entries"
    /\ \E flt \in Faults :
          RestoredEntry(Head(run.queue),
                        main_restore_entry(fs, Repo, Root, Head(run.queue),
                                           run.tmp, run.sym, flt),
                        flt)

NextMain == MainAddStart \/ MainAddPath \/ MainRestoreStart \/ MainRestoreEntry

SpecMain == InitMain /\ [][NextMain]_vars

(***************************************************************************)
(* C23: the manifest is only ever extended.  Every step leaves what the    *)
(* manifest held as a prefix, in order, of what it holds; a step of        *)
(* restore leaves it as it is; and in a run of add the entries appended    *)
(* are the relative paths of the paths that did not fail, one each: the    *)
(* manifest in the file is the manifest the run read, with or (before the  *)
(* write) without them.                                                    *)
(***************************************************************************)
\* the entries the running add has appended to the manifest it read
Appended(r) ==
    SubSeq(r.config, Len(r.config) - Len(r.to_commit) + 1, Len(r.config))

\* the manifest the running add has read
ReadByAdd(r) == SubSeq(r.config, 1, Len(r.config) - Len(r.to_commit))

RECURSIVE main_restore_loop(_, _, _, _)
main_restore_rest(r, entries, tmp, symlinks) ==
    IF ~r.ok THEN [ok |-> FALSE, fs |-> drop_temp_dir(r.fs, tmp)]
    ELSE main_restore_loop(r.fs, entries, tmp, symlinks)

main_restore_loop(f, entries, tmp, symlinks) ==
    IF entries = <<>> THEN [ok |-> TRUE, fs |-> drop_temp_dir(f, tmp)]
    ELSE main_restore_rest(main_restore_entry(f, Repo, Root, Head(entries), tmp,
                                              symlinks, "none"),
                           Tail(entries), tmp, symlinks)

\* main.rs:253-277 restore of the entries, with the temp dir tmp if any
main_restore(f, entries, tmp, symlinks) ==
    main_restore_loop(IF tmp = <<>> THEN f
                      ELSE create_overwrite_temp_dir(f, tmp[1]).fs,
                      entries, tmp, symlinks)

\* the entries without their repetitions, in the order they first come
RECURSIVE Distinct(_, _)
Distinct(entries, seen) ==
    IF entries = <<>> THEN <<>>
    ELSE IF Head(entries) \in seen THEN Distinct(Tail(entries), seen)
    ELSE <<Head(entries)>> \o Distinct(Tail(entries), seen \cup {Head(entries)})

\* the run that has ended did what the run ref does
SameAs(ref) == ref.ok => (run.ok /\ fs = ref.fs)

C24_DuplicateEntryTolerated ==
    (/\ run.cmd = "restore" /\ run.pc = "done" /\ ~run.inj
     /\ Distinct(run.plan, {}) # run.plan)
    => SameAs(main_restore(run.pre, Distinct(run.plan, {}), run.tmp, run.sym))

(***************************************************************************)
(* C25: when a run of add has ended, what was to be committed is one       *)
(* relative path for each path that was moved and none for a path that     *)
(* failed; if nothing was moved nothing was asked of git; otherwise        *)
(* (nothing having failed in the environment after the loop) exactly those *)
(* paths were staged and committed, and only the ones that are git         *)
(* repositories were added as submodules.                                  *)
(***************************************************************************)
\* the requests of kind op that were made of git and went well
Asked(op) == {i \in 1..Len(run.git) : run.git[i].op = op /\ run.git[i].ok}

C25_CommitsExactlyMoved ==
    (run.cmd = "add" /\ run.pc = "done")
    => /\ Len(run.to_commit)
             = Cardinality({i \in 1..Len(run.reports) :
                               run.reports[i].outcome = "added"})
       /\ run.to_commit = <<>> => run.git = <<>>
       /\ \A i \in 1..Len(run.git) :
             /\ run.git[i].op \in {"stage_all_paths", "commit"}
                   => run.git[i].paths = run.to_commit
             /\ run.git[i].op = "add_submodules"
                   => \A j \in 1..Len(run.git[i].paths) :
                         check_open(fs, Join(Repo, run.git[i].paths[j]))
       /\ (run.to_commit # <<>> /\ run.mflt = "none")
             => /\ Asked("stage_all_paths") # {}
                /\ Asked("commit") # {}

(***************************************************************************)
(* C26: a run of the restore of cmds.rs, which takes its entries from the  *)
(* store's directory, never restores the store's own .git and .gitmodules: *)
(* neither they nor anything beneath them is among the paths to restore    *)
(* and nothing is ever made at <root>/.git or <root>/.gitmodules; every    *)
(* other entry of the store that is not a directory is among the paths to  *)
(* restore.                                                                *)
(***************************************************************************)
GitOwn == {Append(Repo, ".git"), Append(Repo, ".gitmodules")}

C27_RestoreLeavesStore ==
    run.cmd = "restore" => Tree(fs, Repo) = Tree(run.pre, Repo)

(***************************************************************************)
(* The commands of src/cmds.rs from a store that holds no managed path     *)
(* yet.                                                                    *)
(***************************************************************************)
InitFresh == InitCmds /\ Children(fs, Repo) \subseteq GitOwn

FreshAddStart ==
    /\ Idle
    /\ nruns < MaxFreshRuns
    /\ \E paths \in AddArgs : AddStarted(paths, flatten_paths_to_add(fs, paths))

FreshRestoreStart ==
    /\ Idle
    /\ nruns < MaxFreshRuns
    /\ \E symlinks \in BOOLEAN, overwrite \in BOOLEAN :
          RestoreStarted(symlinks,
                         restore_begin(fs, Repo, overwrite, TempDirOf(nruns + 1)))

NextFresh == FreshAddStart \/ AddLeaf \/ FreshRestoreStart \/ RestoreEntry

SpecFresh == InitFresh /\ [][NextFresh]_vars

(***************************************************************************)
(* C28: from an empty store, whatever add and restore runs follow, the     *)
(* content of every file that was under the root stays, unchanged, at its  *)
(* original location, in the store or in a temp dir: no step takes a       *)
(* content that is in one of these places away from all of them.           *)
(***************************************************************************)
\* the files of the root: their contents and where they are at first
UserFiles ==
    {[c |-> 1, at |-> RootA], [c |-> 4, at |-> Append(RootC, "a")],
     [c |-> 3, at |-> Else], [c |-> 5, at |-> Append(RootR, "f")],
     [c |-> 5, at |-> Append(NestedR, "f")]}

\* the content of the file u is at its original location, in the store or
\* in a temp dir
Safe(f, u) ==
    \E p \in DOMAIN f :
       /\ f[p].k = "file" /\ f[p].c = u.c
       /\ \/ p = u.at
          \/ IsPrefix(Repo, p)
          \/ \E n \in 1..Len(TempNames) : IsPrefix(TempDirOf(n), p)

C28_ContentNeverLost ==
    [][\A u \in UserFiles : Safe(fs, u) => Safe(fs', u)]_vars

C28_Witness ==
    /\ nruns = 3 /\ run.cmd = "restore" /\ run.pc = "done" /\ run.ok
    /\ run.tmp # <<>> /\ ~run.sym
    /\ ContentAt(fs, Join(run.tmp[1], <<"a">>)) = 1
    /\ ContentAt(fs, StoreA) = 1
    /\ ContentAt(fs, RootA) = 1

(***************************************************************************)
(* C29: restore with symlinks is idempotent.  When a run of restore with   *)
(* symlinks has ended well, a run of restore with symlinks started right   *)
(* away, with or without overwrite, succeeds and leaves the file system as *)
(* it is: nothing under the root is changed, nothing is displaced and no   *)
(* temp dir is left.                                                       *)
(***************************************************************************)
\* cmds.rs:90-108 restore: the loop over the paths to restore and the drop
\* of the temp dir, nothing failing in the environment
RECURSIVE restore_loop(_, _, _, _)
restore_loop_rest(r, queue, tmp, symlinks) ==
    IF ~r.ok THEN [ok |-> FALSE, fs |-> drop_temp_dir(r.fs, tmp)]
    ELSE restore_loop(r.fs, queue, tmp, symlinks)

restore_loop(f, queue, tmp, symlinks) ==
    IF queue = <<>> THEN [ok |-> TRUE, fs |-> drop_temp_dir(f, tmp)]
    ELSE restore_loop_rest(restore_entry(f, Repo, Root, Head(queue), tmp,
                                         symlinks, "none"),
                           Tail(queue), tmp, symlinks)

restore_planned(p, symlinks) ==
    IF ~p.ok THEN [ok |-> FALSE, fs |-> drop_temp_dir(p.fs, p.tmp)]
    ELSE restore_loop(p.fs, p.queue, p.tmp, symlinks)

\* cmds.rs:70 restore, as one step from the file system f
cmds_restore(f, overwrite, temp_dir, symlinks) ==
    restore_planned(restore_begin(f, Repo, overwrite, temp_dir), symlinks)

\* the run r changes nothing
NoOp(r) == r.ok /\ r.fs = fs

C29_SymlinkRestoreIdempotent ==
    (run.cmd = "restore" /\ run.pc = "done" /\ run.ok /\ run.sym)
    => \A overwrite \in BOOLEAN :
          NoOp(cmds_restore(fs, overwrite, TempDirOf(nruns + 1), TRUE))

(***************************************************************************)
(* C30: for requested paths that all exist, flatten_paths_to_add ends and  *)
(* its leaves are exactly: the entries that are not directories in the     *)
(* trees of the requested paths, outside every git repository, with type   *)
(* File; and the outermost git repositories of those trees, with type      *)
(* GitRepo.  No File leaf is a directory and an empty directory gives no   *)
(* leaf.  The trees hold symlinks to files and to repositories; none to a  *)
(* plain directory.                                                        *)
(***************************************************************************)
\* what is_dir and check_open say of an entry decides its leaf; an entry
\* that is a symlink counts as what it resolves to (cmds.rs:151-152)
LeavesOf(f, args) ==
    {Leaf(p, IF IsDir(f, p) THEN "GitRepo" ELSE "File") :
        p \in {q \in DOMAIN f :
                  /\ InRequestedTree(f, args, q)
                  /\ IsDir(f, q) => Exists(f, Append(q, ".git"))}}

InsideStore(p) == IsPrefix(Repo, p)

\* p is a link and the path written in it is s
PointsAt(f, p, s) == IsLink(f, p) /\ Lstat(f, p).n.t = s

C31_AddStaysOutsideStore ==
    run.cmd = "add"
    => \A i \in 1..Len(run.reports) :
          run.reports[i].outcome = "added"
          => /\ ~InsideStore(run.reports[i].path)
             /\ PointsAt(fs, run.reports[i].path,
                         Join(Repo, relative_from_root(Root, run.reports[i].path).rel))

====
